---- MODULE Spec2Model ----
(***************************************************************************)
(* BioFinanceAnalyzer: the break-even / target-profit derivation engine    *)
(* (the `results` useMemo of App.tsx), the input editor of InputForm.tsx   *)
(* the project save / load path, and the chat assistant (AIAnalysis) with  *)
(* the analysis service behind it (services/aiService.ts).                 *)
(*                                                                         *)
(* JavaScript numbers are modelled as exact rationals extended with        *)
(* +Infinity, -Infinity and NaN, plus the value `undefined` that an absent *)
(* object field reads as and the `null` that JSON.parse returns for a      *)
(* serialized NaN.  IEEE rounding error and the sign of zero are           *)
(* abstracted away; everything else (NaN and Infinity propagation,         *)
(* comparisons with NaN, `??`, `Number(x) || 0`, toFixed(2)) follows the   *)
(* language semantics.                                                     *)
(***************************************************************************)
EXTENDS Integers, Sequences, FiniteSets, TLC

VARIABLES inputs, projects, activeProjectId, now, nOps,
          messages, status, inputQuery, pending, nReq, apiKeyEnv

\* the state of the chat assistant, and all of it with the build's API key
chatVars == <<messages, status, inputQuery, pending, nReq>>

aiVars == <<chatVars, apiKeyEnv>>

vars == <<inputs, projects, activeProjectId, now, nOps, aiVars>>

(***************************************************************************)
(* Bounds of the model.                                                    *)
(***************************************************************************)
MaxOps == 4
MaxProjects == 1

\* analysis requests started in one session
MaxRequests == 3

(***************************************************************************)
(* Numbers.                                                                *)
(***************************************************************************)
Abs(i) == IF i < 0 THEN -i ELSE i

Sign(i) == IF i < 0 THEN -1 ELSE IF i > 0 THEN 1 ELSE 0

RECURSIVE GCD(_, _)
GCD(a, b) == IF b = 0 THEN a ELSE GCD(b, a % b)

\* the rational n/d in lowest terms with a positive denominator
Num(n, d) ==
    LET g == GCD(Abs(n), Abs(d))
        s == IF d < 0 THEN -1 ELSE 1
    IN [k |-> "num", n |-> (s * n) \div g, d |-> (s * d) \div g]

Int2Num(i) == [k |-> "num", n |-> i, d |-> 1]

PosInf == [k |-> "inf", n |-> 1, d |-> 0]

NegInf == [k |-> "inf", n |-> -1, d |-> 0]

NaN == [k |-> "nan", n |-> 0, d |-> 0]

Undefined == [k |-> "undefined", n |-> 0, d |-> 0]

Null == [k |-> "null", n |-> 0, d |-> 0]

Zero == Int2Num(0)

Inf(s) == IF s < 0 THEN NegInf ELSE PosInf

\* ToNumber: in every arithmetic operator undefined converts to NaN, null to 0
ToNumber(x) ==
    IF x.k = "undefined" THEN NaN
    ELSE IF x.k = "null" THEN Zero
    ELSE x

IsNaN(x) == ToNumber(x).k = "nan"

IsFinite(x) == x.k = "num"

IsZero(x) == x.k = "num" /\ x.n = 0

Neg(x) ==
    LET a == ToNumber(x)
    IN IF a.k = "nan" THEN NaN
       ELSE IF a.k = "inf" THEN Inf(-a.n)
       ELSE [k |-> "num", n |-> -a.n, d |-> a.d]

\* a + b
Add(x, y) ==
    LET a == ToNumber(x)
        b == ToNumber(y)
    IN IF a.k = "nan" \/ b.k = "nan" THEN NaN
       ELSE IF a.k = "inf" /\ b.k = "inf"
            THEN (IF a.n = b.n THEN a ELSE NaN)
       ELSE IF a.k = "inf" THEN a
       ELSE IF b.k = "inf" THEN b
       ELSE LET g == GCD(a.d, b.d)
            IN Num(a.n * (b.d \div g) + b.n * (a.d \div g), (a.d \div g) * b.d)

\* a - b
Sub(x, y) == Add(x, Neg(y))

\* a * b
Mul(x, y) ==
    LET a == ToNumber(x)
        b == ToNumber(y)
    IN IF a.k = "nan" \/ b.k = "nan" THEN NaN
       ELSE IF a.k = "inf" \/ b.k = "inf"
            THEN (IF a.n = 0 \/ b.n = 0 THEN NaN ELSE Inf(Sign(a.n) * Sign(b.n)))
       ELSE LET g1 == GCD(Abs(a.n), b.d)
                g2 == GCD(Abs(b.n), a.d)
            IN Num((a.n \div g1) * (b.n \div g2), (a.d \div g2) * (b.d \div g1))

\* a / b  (a zero divisor is +0: x/0 is an infinity of the sign of x, 0/0 is NaN)
Div(x, y) ==
    LET a == ToNumber(x)
        b == ToNumber(y)
    IN IF a.k = "nan" \/ b.k = "nan" THEN NaN
       ELSE IF a.k = "inf"
            THEN (IF b.k = "inf" THEN NaN
                  ELSE IF b.n < 0 THEN Inf(-a.n) ELSE a)
       ELSE IF b.k = "inf" THEN Zero
       ELSE IF b.n = 0
            THEN (IF a.n = 0 THEN NaN ELSE Inf(a.n))
       ELSE LET g1 == GCD(Abs(a.n), Abs(b.n))
                g2 == GCD(a.d, b.d)
            IN Num((a.n \div g1) * (b.d \div g2) * Sign(b.n),
                   (a.d \div g2) * (Abs(b.n) \div g1))

\* a < b ; every comparison with NaN is false
Lt(x, y) ==
    LET a == ToNumber(x)
        b == ToNumber(y)
    IN IF a.k = "nan" \/ b.k = "nan" THEN FALSE
       ELSE IF a.k = "inf" /\ b.k = "inf" THEN a.n < b.n
       ELSE IF a.k = "inf" THEN a.n < 0
       ELSE IF b.k = "inf" THEN b.n > 0
       ELSE LET g == GCD(a.d, b.d)
            IN a.n * (b.d \div g) < b.n * (a.d \div g)

\* a === b on numbers: NaN is not equal to anything, itself included
StrictEq(x, y) ==
    IF x.k \in {"undefined", "null"} \/ y.k \in {"undefined", "null"}
    THEN x.k = y.k
    ELSE x.k # "nan" /\ y.k # "nan" /\ x = y

Gt(x, y) == Lt(y, x)

Leq(x, y) == Lt(x, y) \/ StrictEq(ToNumber(x), ToNumber(y))

\* x ?? y
Nullish(x, y) == IF x.k \in {"undefined", "null"} THEN y ELSE x

\* Number(x) || 0 : Number(undefined) is NaN, Number(null) is 0, both falsy
NumberOr0(x) == IF IsNaN(x) THEN Zero ELSE ToNumber(x)

\* n / m rounded to the nearest integer, halves away from zero (n >= 0, m > 0)
RoundDiv(n, m) == (2 * n + m) \div (2 * m)

\* parseFloat(x.toFixed(2))
toFixed2(x) ==
    IF x.k # "num" THEN ToNumber(x)
    ELSE LET g == GCD(100, x.d)
             r == RoundDiv(Abs(x.n) * (100 \div g), x.d \div g)
         IN Num(Sign(x.n) * r, 100)

(***************************************************************************)
(* constants.ts: DEFAULT_INPUTS.  The object literal has no salesExpenses  *)
(* and no targetNetProfit property, so both read as undefined.  Item names *)
(* are abbreviated; ids '1'..'4' are the integers 1..4.  The optional      *)
(* googleApiKey is '' while absent: the code reads it through || only.     *)
(***************************************************************************)
DefaultFc == 2000000

DefaultP == 15000

DefaultVc == 5000

DefaultTp == 1000000

DefaultTpRate == 20

FCItem(id, name, amount) == [id |-> id, name |-> name, amount |-> amount]

ProductItem(id, name, p, vc, mix) ==
    [id |-> id, name |-> name, p |-> p, vc |-> vc, mix |-> mix]

DEFAULT_INPUTS ==
    [fc |-> Int2Num(DefaultFc),
     p |-> Int2Num(DefaultP),
     vc |-> Int2Num(DefaultVc),
     tp |-> Int2Num(DefaultTp),
     tpMode |-> "amount",
     tpRate |-> Int2Num(DefaultTpRate),
     salesExpenses |-> Undefined,
     targetNetProfit |-> Undefined,
     fcMode |-> "simple",
     fcDetails |-> << FCItem(1, "rent", Int2Num(800000)),
                      FCItem(2, "salaries", Int2Num(900000)),
                      FCItem(3, "depreciation", Int2Num(200000)),
                      FCItem(4, "admin", Int2Num(100000)) >>,
     productMode |-> "simple",
     productDetails |-> << ProductItem(1, "storage", Int2Num(8000), Int2Num(2000), Int2Num(40)),
                           ProductItem(2, "standard", Int2Num(18000), Int2Num(6000), Int2Num(50)),
                           ProductItem(3, "premium", Int2Num(35000), Int2Num(12000), Int2Num(10)) >>,
     aiConfig |-> [provider |-> "google", model |-> "gemini-3-pro-preview",
                   language |-> "zh",
                   googleApiKey |-> "",
                   customBaseUrl |-> "https://api.deepseek.com/v1",
                   customModel |-> "deepseek-chat"]]

(***************************************************************************)
(* App.tsx: the `results` useMemo (the derivation engine).                 *)
(***************************************************************************)
\* the validity guard  p <= vc
isDegenerate_strict(p, vc) == Lt(p, vc)

isDegenerate(p, vc) == Leq(p, vc)

InvalidResults ==
    [cm |-> Zero, cmr |-> Zero,
     bepUnits |-> Zero, bepAmount |-> Zero,
     bepNetUnits |-> Zero, bepNetAmount |-> Zero,
     targetUnits |-> Zero, targetAmount |-> Zero,
     totalVC |-> Zero, totalBusinessCost |-> Zero, totalAllCost |-> Zero,
     effectiveGrossTp |-> Zero, effectiveNetTp |-> Zero,
     safetyMargin |-> Zero, isValid |-> FALSE]

\* const rateDecimal = tpRate / 100
rateDecimal(tpRate) == Div(tpRate, Int2Num(100))

\* effectiveGrossTp = targetAmount * rateDecimal
grossAtRate_percent(targetAmount, tpRate) == Mul(targetAmount, tpRate)

grossAtRate(targetAmount, tpRate) == Mul(targetAmount, rateDecimal(tpRate))

\* variant: the rate branch reports the typed tp as the gross profit
targetOf_typedTp(fc, p, tp, tpMode, tpRate, cm, cmr) ==
    IF tpMode = "rate"
    THEN IF Gt(cmr, rateDecimal(tpRate))
         THEN LET targetAmount == Div(fc, Sub(cmr, rateDecimal(tpRate)))
              IN [targetUnits |-> Div(targetAmount, p),
                  targetAmount |-> targetAmount,
                  effectiveGrossTp |-> tp]
         ELSE [targetUnits |-> PosInf, targetAmount |-> PosInf,
               effectiveGrossTp |-> PosInf]
    ELSE [targetUnits |-> Div(Add(fc, tp), cm),
          targetAmount |-> Div(Add(fc, tp), cmr),
          effectiveGrossTp |-> tp]

\* the target of the 'rate' and of the 'amount' mode: units, amount, gross profit
targetOf(fc, p, tp, tpMode, tpRate, cm, cmr) ==
    IF tpMode = "rate"
    THEN IF Gt(cmr, rateDecimal(tpRate))
         THEN LET targetAmount == Div(fc, Sub(cmr, rateDecimal(tpRate)))
              IN [targetUnits |-> Div(targetAmount, p),
                  targetAmount |-> targetAmount,
                  effectiveGrossTp |-> grossAtRate(targetAmount, tpRate)]
         ELSE [targetUnits |-> PosInf, targetAmount |-> PosInf,
               effectiveGrossTp |-> PosInf]
    ELSE [targetUnits |-> Div(Add(fc, tp), cm),
          targetAmount |-> Div(Add(fc, tp), cmr),
          effectiveGrossTp |-> tp]

\* targetAmount > 0 && targetAmount !== Infinity ? (targetAmount - bepAmount) / targetAmount : 0
safetyMarginOf_overBep(targetAmount, bepAmount) ==
    IF Gt(targetAmount, Zero) /\ targetAmount # PosInf
    THEN Div(Sub(targetAmount, bepAmount), bepAmount)
    ELSE Zero

\* variant: the difference taken the other way round
safetyMarginOf_reversed(targetAmount, bepAmount) ==
    IF Gt(targetAmount, Zero) /\ targetAmount # PosInf
    THEN Div(Sub(bepAmount, targetAmount), targetAmount)
    ELSE Zero

safetyMarginOf(targetAmount, bepAmount) ==
    IF Gt(targetAmount, Zero) /\ targetAmount # PosInf
    THEN Div(Sub(targetAmount, bepAmount), targetAmount)
    ELSE Zero

evaluate(inp) ==
    IF isDegenerate(inp.p, inp.vc) THEN InvalidResults
    ELSE
    LET fc == inp.fc
        p == inp.p
        vc == inp.vc
        salesExpenses == inp.salesExpenses
        cm == Sub(p, vc)
        cmr == Div(cm, p)
        totalFixedCosts == Add(fc, salesExpenses)
        t == targetOf(fc, p, inp.tp, inp.tpMode, inp.tpRate, cm, cmr)
        unreachable == t.targetUnits = PosInf
        totalVC == IF unreachable THEN PosInf ELSE Mul(t.targetUnits, vc)
        totalBusinessCost == IF unreachable THEN PosInf ELSE Add(fc, totalVC)
        bepAmount == Div(fc, cmr)
    IN [cm |-> cm, cmr |-> cmr,
        bepUnits |-> Div(fc, cm), bepAmount |-> bepAmount,
        bepNetUnits |-> Div(totalFixedCosts, cm),
        bepNetAmount |-> Div(totalFixedCosts, cmr),
        targetUnits |-> t.targetUnits, targetAmount |-> t.targetAmount,
        totalVC |-> totalVC, totalBusinessCost |-> totalBusinessCost,
        totalAllCost |-> IF unreachable THEN PosInf
                         ELSE Add(totalBusinessCost, salesExpenses),
        effectiveGrossTp |-> t.effectiveGrossTp,
        effectiveNetTp |-> Sub(t.effectiveGrossTp, salesExpenses),
        safetyMargin |-> safetyMarginOf(t.targetAmount, bepAmount),
        isValid |-> TRUE]

(***************************************************************************)
(* App.tsx: handleInputChange.  `updates` is a partial record, given as a  *)
(* function from the updated field names to their new values.              *)
(***************************************************************************)
Merge(prev, updates) ==
    [f \in DOMAIN prev |-> IF f \in DOMAIN updates THEN updates[f] ELSE prev[f]]

handleInputChange(prev, updates) ==
    LET newInputs == Merge(prev, updates)
    IN IF newInputs.tpMode = "amount"
       THEN IF "tp" \in DOMAIN updates \/ "salesExpenses" \in DOMAIN updates
            THEN [newInputs EXCEPT !.targetNetProfit =
                      Sub(newInputs.tp, newInputs.salesExpenses)]
            ELSE IF "targetNetProfit" \in DOMAIN updates
            THEN [newInputs EXCEPT !.tp =
                      Add(newInputs.targetNetProfit, newInputs.salesExpenses)]
            ELSE newInputs
       ELSE newInputs

(***************************************************************************)
(* What the user types.  A cleared or unparsable field is Blank: its text  *)
(* is '' and parseFloat of it is NaN.                                      *)
(***************************************************************************)
Blank == NaN

TypedSimple(key) ==
    CASE key = "fc" -> {Blank, Int2Num(1000000)}
      [] key = "p" -> {Blank, Int2Num(5000)}
      [] key = "vc" -> {Int2Num(-5000), Int2Num(3000)}
      [] key = "tp" -> {Blank, Int2Num(-3000000)}
      [] key = "tpRate" -> {Blank, Int2Num(80)}
      [] key = "salesExpenses" -> {Blank, Int2Num(500000)}
      [] key = "targetNetProfit" -> {Int2Num(500000)}

SimpleKeys ==
    {"fc", "p", "vc", "tp", "tpRate", "salesExpenses", "targetNetProfit"}

TypedAmount == {Blank, Int2Num(300000)}

TypedProductField(field) ==
    CASE field = "p" -> {Blank, Int2Num(10000)}
      [] field = "vc" -> {Blank, Int2Num(1000)}
      [] field = "mix" -> {Blank, Zero, Int2Num(33)}

TypedName == {"renamed"}

(***************************************************************************)
(* InputForm.tsx: the handlers.  Each one computes the `updates` it hands  *)
(* to onChange (= handleInputChange) from the inputs of the current render.*)
(***************************************************************************)
RECURSIVE SumNums(_)
SumNums(s) ==
    IF Len(s) = 0 THEN Zero
    ELSE Add(SumNums(SubSeq(s, 1, Len(s) - 1)), s[Len(s)])

Filter(s, keep(_)) == SelectSeq(s, keep)

\* const val = e.target.value === '' ? 0 : parseFloat(e.target.value); isNaN(val) ? 0 : val
parseSimple(typed) == IF IsNaN(typed) THEN Zero ELSE typed

\* the field `key` is rendered and enabled
fieldShown(inp, key) ==
    CASE key = "fc" -> inp.fcMode = "simple"
      [] key \in {"p", "vc"} -> inp.productMode = "simple"
      [] key = "tpRate" -> inp.tpMode = "rate"
      [] key = "tp" -> inp.tpMode = "amount"
      [] key = "salesExpenses" -> TRUE
      [] key = "targetNetProfit" -> inp.tpMode = "amount"

\* inputs.fcDetails.reduce((sum, item) => sum + item.amount, 0)
rawTotal(details) == SumNums([i \in 1..Len(details) |-> details[i].amount])

\* details.reduce((sum, item) => sum + (Number(item.amount) || 0), 0)
fcTotal(details) ==
    SumNums([i \in 1..Len(details) |-> NumberOr0(details[i].amount)])

\* variant: leaving the detailed mode also clears fc for manual entry
toggleFCModeUpdates_reset(inp) ==
    IF inp.fcMode = "simple"
    THEN [f \in {"fcMode", "fc"} |->
             IF f = "fcMode" THEN "detailed" ELSE rawTotal(inp.fcDetails)]
    ELSE [f \in {"fcMode", "fc"} |-> IF f = "fcMode" THEN "simple" ELSE Zero]

toggleFCModeUpdates(inp) ==
    IF inp.fcMode = "simple"
    THEN [f \in {"fcMode", "fc"} |->
             IF f = "fcMode" THEN "detailed" ELSE rawTotal(inp.fcDetails)]
    ELSE [f \in {"fcMode"} |-> "simple"]

setField(item, field, value) == [item EXCEPT ![field] = value]

updateFCItemUpdates(inp, id, field, value) ==
    LET newDetails == [i \in 1..Len(inp.fcDetails) |->
                          IF inp.fcDetails[i].id = id
                          THEN setField(inp.fcDetails[i], field, value)
                          ELSE inp.fcDetails[i]]
    IN [f \in {"fcDetails", "fc"} |->
           IF f = "fcDetails" THEN newDetails ELSE fcTotal(newDetails)]

addFCItemUpdates(inp, t) ==
    [f \in {"fcDetails"} |-> Append(inp.fcDetails, FCItem(t, "new", Zero))]

removeFCItemUpdates(inp, id) ==
    LET keep(item) == item.id # id
        newDetails == Filter(inp.fcDetails, keep)
    IN [f \in {"fcDetails", "fc"} |->
           IF f = "fcDetails" THEN newDetails ELSE fcTotal(newDetails)]

\* the mix-weighted average of field `fld` as recalculateWeightedAvg accumulates it
weighted(details, fld, totalMix) ==
    SumNums([i \in 1..Len(details) |->
                Mul(NumberOr0(details[i][fld]),
                    Div(NumberOr0(details[i].mix), totalMix))])

\* parseFloat(x.toFixed(2)) as used to store p and vc
storeRounded_truncate(x) ==
    IF x.k # "num" THEN ToNumber(x)
    ELSE Num(Sign(x.n) * ((Abs(x.n) * 100) \div x.d), 100)

storeRounded(x) == toFixed2(x)

recalculateWeightedAvg(details) ==
    LET totalMix == SumNums([i \in 1..Len(details) |-> NumberOr0(details[i].mix)])
    IN IF totalMix = Zero
       THEN [f \in {"productDetails", "p", "vc"} |->
                IF f = "productDetails" THEN details ELSE Zero]
       ELSE [f \in {"productDetails", "p", "vc"} |->
                IF f = "productDetails" THEN details
                ELSE storeRounded(weighted(details, f, totalMix))]

updateProductItemUpdates(inp, id, field, value) ==
    recalculateWeightedAvg(
        [i \in 1..Len(inp.productDetails) |->
            IF inp.productDetails[i].id = id
            THEN setField(inp.productDetails[i], field, value)
            ELSE inp.productDetails[i]])

addProductItemUpdates(inp, t) ==
    recalculateWeightedAvg(
        Append(inp.productDetails, ProductItem(t, "new", Zero, Zero, Int2Num(10))))

removeProductItemUpdates(inp, id) ==
    LET keep(item) == item.id # id
    IN recalculateWeightedAvg(Filter(inp.productDetails, keep))

(***************************************************************************)
(* App.tsx: handleProjectLoad, and ProjectManager's handleSave.            *)
(***************************************************************************)
\* variant: the AI config of the file replaces the active one
handleProjectLoadInputs_fileConfig(prev, project) ==
    LET loadedInputs == project.inputs
        merged == Merge(DEFAULT_INPUTS, loadedInputs)
    IN [merged EXCEPT
          !.salesExpenses =
              Nullish(loadedInputs.salesExpenses, DEFAULT_INPUTS.salesExpenses),
          !.targetNetProfit =
              Nullish(loadedInputs.targetNetProfit,
                      Sub(loadedInputs.tp,
                          Nullish(loadedInputs.salesExpenses,
                                  DEFAULT_INPUTS.salesExpenses)))]

handleProjectLoadInputs(prev, project) ==
    LET loadedInputs == project.inputs
        merged == Merge(DEFAULT_INPUTS, loadedInputs)
    IN [merged EXCEPT
          !.aiConfig = prev.aiConfig,
          !.salesExpenses =
              Nullish(loadedInputs.salesExpenses, DEFAULT_INPUTS.salesExpenses),
          !.targetNetProfit =
              Nullish(loadedInputs.targetNetProfit,
                      Sub(loadedInputs.tp,
                          Nullish(loadedInputs.salesExpenses,
                                  DEFAULT_INPUTS.salesExpenses)))]

\* setInputs(prev => ({ ...prev, aiConfig: { ...prev.aiConfig, ...updates } }))
updateAIConfigInputs(prev, updates) ==
    [prev EXCEPT !.aiConfig = Merge(prev.aiConfig, updates)]

\* what the settings dialog changes, and the config of a preset saved earlier
TypedAIUpdates == {[f \in {"language"} |-> "en"]}

PresetConfigs ==
    {[provider |-> "custom", model |-> "gemini-3-pro-preview", language |-> "zh",
      customBaseUrl |-> "https://api.deepseek.com/v1", customModel |-> "deepseek-chat"]}

(***************************************************************************)
(* localStorage: JSON.parse(JSON.stringify(x)).  A NaN or an infinity is   *)
(* written as null; a property whose value is undefined is left out and    *)
(* reads back as undefined; every other number reads back as itself.       *)
(***************************************************************************)
jsonNumber(x) == IF x.k \in {"nan", "inf"} THEN Null ELSE x

jsonInputs(inp) ==
    [inp EXCEPT
        !.fc = jsonNumber(@), !.p = jsonNumber(@), !.vc = jsonNumber(@),
        !.tp = jsonNumber(@), !.tpRate = jsonNumber(@),
        !.salesExpenses = jsonNumber(@), !.targetNetProfit = jsonNumber(@),
        !.fcDetails = [i \in 1..Len(@) |-> [@[i] EXCEPT !.amount = jsonNumber(@)]],
        !.productDetails = [i \in 1..Len(@) |->
                               [@[i] EXCEPT !.p = jsonNumber(@), !.vc = jsonNumber(@),
                                            !.mix = jsonNumber(@)]]]

jsonProject(project) == [project EXCEPT !.inputs = jsonInputs(@)]

(***************************************************************************)
(* The state machine.  `results` is the useMemo value of the current       *)
(* render: a function of the inputs, recomputed whenever they change.      *)
(***************************************************************************)
results == evaluate(inputs)

\* AIAnalysis after its mount: useState([]), useState(IDLE), useState(''),
\* and no request in flight
chatMounted ==
    /\ messages = << >>
    /\ status = "IDLE"
    /\ inputQuery = ""
    /\ pending = {}
    /\ nReq = 0

Init ==
    /\ inputs = DEFAULT_INPUTS
    /\ projects = << >>
    /\ activeProjectId = 0
    /\ now = 1000
    /\ nOps = 0
    /\ chatMounted
    /\ apiKeyEnv = ""

\* setInputs(prev => handleInputChange(prev, updates))
onChange(updates) ==
    /\ inputs' = handleInputChange(inputs, updates)
    /\ nOps' = nOps + 1

\* handleSimpleChange(key, e.target.value)
editSimple(key) ==
    /\ nOps < MaxOps
    /\ fieldShown(inputs, key)
    /\ \E typed \in TypedSimple(key) :
         onChange([f \in {key} |-> parseSimple(typed)])
    /\ UNCHANGED <<projects, activeProjectId, now, aiVars>>

handleSimpleChange == \E key \in SimpleKeys : editSimple(key)

toggleFCMode ==
    /\ nOps < MaxOps
    /\ onChange(toggleFCModeUpdates(inputs))
    /\ UNCHANGED <<projects, activeProjectId, now, aiVars>>

updateFCItem ==
    /\ nOps < MaxOps
    /\ inputs.fcMode = "detailed"
    /\ \E i \in 1..Len(inputs.fcDetails) :
         \/ \E v \in TypedAmount :
              onChange(updateFCItemUpdates(inputs, inputs.fcDetails[i].id, "amount", v))
         \/ \E v \in TypedName :
              onChange(updateFCItemUpdates(inputs, inputs.fcDetails[i].id, "name", v))
    /\ UNCHANGED <<projects, activeProjectId, now, aiVars>>

addFCItem ==
    /\ nOps < MaxOps
    /\ inputs.fcMode = "detailed"
    /\ onChange(addFCItemUpdates(inputs, now))
    /\ now' = now + 1
    /\ UNCHANGED <<projects, activeProjectId, aiVars>>

removeFCItem ==
    /\ nOps < MaxOps
    /\ inputs.fcMode = "detailed"
    /\ \E i \in 1..Len(inputs.fcDetails) :
         onChange(removeFCItemUpdates(inputs, inputs.fcDetails[i].id))
    /\ UNCHANGED <<projects, activeProjectId, now, aiVars>>

\* simple -> detailed calls onChange twice: the recomputed averages, then the mode
toggleProductMode ==
    /\ nOps < MaxOps
    /\ IF inputs.productMode = "simple"
       THEN inputs' = handleInputChange(
                          handleInputChange(inputs,
                              recalculateWeightedAvg(inputs.productDetails)),
                          [f \in {"productMode"} |-> "detailed"])
       ELSE inputs' = handleInputChange(inputs, [f \in {"productMode"} |-> "simple"])
    /\ nOps' = nOps + 1
    /\ UNCHANGED <<projects, activeProjectId, now, aiVars>>

updateProductItem ==
    /\ nOps < MaxOps
    /\ inputs.productMode = "detailed"
    /\ \E i \in 1..Len(inputs.productDetails) :
         \/ \E field \in {"p", "vc", "mix"} : \E v \in TypedProductField(field) :
              onChange(updateProductItemUpdates(inputs, inputs.productDetails[i].id, field, v))
         \/ \E v \in TypedName :
              onChange(updateProductItemUpdates(inputs, inputs.productDetails[i].id, "name", v))
    /\ UNCHANGED <<projects, activeProjectId, now, aiVars>>

addProductItem ==
    /\ nOps < MaxOps
    /\ inputs.productMode = "detailed"
    /\ onChange(addProductItemUpdates(inputs, now))
    /\ now' = now + 1
    /\ UNCHANGED <<projects, activeProjectId, aiVars>>

removeProductItem ==
    /\ nOps < MaxOps
    /\ inputs.productMode = "detailed"
    /\ \E i \in 1..Len(inputs.productDetails) :
         onChange(removeProductItemUpdates(inputs, inputs.productDetails[i].id))
    /\ UNCHANGED <<projects, activeProjectId, now, aiVars>>

toggleTpMode ==
    /\ nOps < MaxOps
    /\ onChange([f \in {"tpMode"} |-> IF inputs.tpMode = "rate" THEN "amount" ELSE "rate"])
    /\ UNCHANGED <<projects, activeProjectId, now, aiVars>>

\* ProjectManager.handleSave with a non-empty project name
handleSave ==
    /\ nOps < MaxOps
    /\ Len(projects) < MaxProjects
    /\ projects' = << [id |-> now, updatedAt |-> now, inputs |-> inputs] >> \o projects
    /\ now' = now + 1
    /\ nOps' = nOps + 1
    /\ UNCHANGED <<inputs, activeProjectId, aiVars>>

\* ProjectManager.handleLoad (confirmed) -> App.handleProjectLoad
handleProjectLoad ==
    /\ nOps < MaxOps
    /\ \E i \in 1..Len(projects) :
         /\ inputs' = handleProjectLoadInputs(inputs, projects[i])
         /\ activeProjectId' = projects[i].id
    /\ nOps' = nOps + 1
    /\ UNCHANGED <<projects, now, aiVars>>

\* a page reload: App and ProjectManager mount again.  The inputs start from
\* DEFAULT_INPUTS with the AI config updateAIConfig persisted; the project
\* list is parsed from localStorage; the chat mounts again, and what a
\* request of the old page does when it settles reaches no state.
reloadPage ==
    /\ nOps < MaxOps
    /\ inputs' = [DEFAULT_INPUTS EXCEPT
                      !.aiConfig = Merge(DEFAULT_INPUTS.aiConfig, inputs.aiConfig)]
    /\ projects' = [i \in 1..Len(projects) |-> jsonProject(projects[i])]
    /\ activeProjectId' = 0
    /\ nOps' = nOps + 1
    /\ messages' = << >> /\ status' = "IDLE" /\ inputQuery' = "" /\ pending' = {}
    /\ UNCHANGED <<now, nReq, apiKeyEnv>>

updateAIConfig ==
    /\ nOps < MaxOps
    /\ \E updates \in TypedAIUpdates :
         inputs' = updateAIConfigInputs(inputs, updates)
    /\ nOps' = nOps + 1
    /\ UNCHANGED <<projects, activeProjectId, now, aiVars>>

\* the provider buttons of the settings dialog: updateAIConfig({ provider })
switchProvider ==
    /\ nOps < MaxOps
    /\ \E provider \in {"google", "custom"} :
         /\ inputs' = updateAIConfigInputs(inputs, [f \in {"provider"} |-> provider])
    /\ nOps' = nOps + 1
    /\ UNCHANGED <<projects, activeProjectId, now, aiVars>>

\* loadPreset(preset) = updateAIConfig(preset.config)
loadPreset ==
    /\ nOps < MaxOps
    /\ \E config \in PresetConfigs :
         inputs' = updateAIConfigInputs(inputs, config)
    /\ nOps' = nOps + 1
    /\ UNCHANGED <<projects, activeProjectId, now, aiVars>>

Next ==
    \/ handleSimpleChange
    \/ toggleFCMode
    \/ updateFCItem
    \/ addFCItem
    \/ removeFCItem
    \/ toggleProductMode
    \/ updateProductItem
    \/ addProductItem
    \/ removeProductItem
    \/ toggleTpMode
    \/ handleSave
    \/ handleProjectLoad
    \/ reloadPage
    \/ updateAIConfig
    \/ loadPreset

Spec == Init /\ [][Next]_vars

(***************************************************************************)
(* The engine on its own.  The initial snapshots are the ones a scripted   *)
(* sequence of editor operations produces from DEFAULT_INPUTS: an optional *)
(* edit of each simple field, the detour through the fixed-cost detail     *)
(* list that leaves a blank amount in it, and the target-mode toggle.      *)
(***************************************************************************)
NoEdit == [k |-> "none", n |-> 0, d |-> 0]

editOf(inp, key, typed) ==
    IF typed = NoEdit THEN inp
    ELSE handleInputChange(inp, [f \in {key} |-> parseSimple(typed)])

toggled(inp) ==
    handleInputChange(inp,
        [f \in {"tpMode"} |-> IF inp.tpMode = "rate" THEN "amount" ELSE "rate"])

\* detailed, blank the first amount, simple, detailed again, simple
blankAmountDetour(inp) ==
    LET a == handleInputChange(inp, toggleFCModeUpdates(inp))
        b == handleInputChange(a, updateFCItemUpdates(a, a.fcDetails[1].id, "amount", Blank))
        c == handleInputChange(b, toggleFCModeUpdates(b))
        e == handleInputChange(c, toggleFCModeUpdates(c))
    IN handleInputChange(e, toggleFCModeUpdates(e))

scripted(detour, fc, p, vc, tpRate, salesExpenses, tp, targetNetProfit, rate) ==
    LET s0 == IF detour THEN blankAmountDetour(DEFAULT_INPUTS) ELSE DEFAULT_INPUTS
        s1 == editOf(s0, "fc", fc)
        s2 == editOf(s1, "p", p)
        s3 == editOf(s2, "vc", vc)
        s4 == IF tpRate = NoEdit THEN s3
              ELSE toggled(editOf(toggled(s3), "tpRate", tpRate))
        s5 == editOf(s4, "salesExpenses", salesExpenses)
        s6 == editOf(s5, "tp", tp)
        s7 == editOf(s6, "targetNetProfit", targetNetProfit)
    IN IF rate THEN toggled(s7) ELSE s7

EngineInit ==
    /\ \E detour \in BOOLEAN, rate \in BOOLEAN :
       \E fc \in TypedSimple("fc") \cup {NoEdit}, p \in TypedSimple("p") \cup {NoEdit},
          vc \in TypedSimple("vc") \cup {NoEdit},
          tpRate \in TypedSimple("tpRate") \cup {NoEdit},
          salesExpenses \in TypedSimple("salesExpenses") \cup {NoEdit},
          tp \in TypedSimple("tp") \cup {NoEdit},
          targetNetProfit \in TypedSimple("targetNetProfit") \cup {NoEdit} :
            /\ ~(detour /\ fc # NoEdit)
            /\ ~(tp # NoEdit /\ targetNetProfit # NoEdit)
            /\ inputs = scripted(detour, fc, p, vc, tpRate, salesExpenses,
                                 tp, targetNetProfit, rate)
    /\ projects = << >>
    /\ activeProjectId = 0
    /\ now = 1000
    /\ nOps = 0
    /\ chatMounted
    /\ apiKeyEnv = ""

EngineNext ==
    \/ handleSimpleChange
    \/ toggleTpMode

EngineSpec == EngineInit /\ [][EngineNext]_vars

\* the same operations, from DEFAULT_INPUTS alone
SimpleSpec == Init /\ [][EngineNext]_vars

(***************************************************************************)
(* Saving and loading.  The session starts after the user has typed the    *)
(* sales expenses, so every snapshot saved in it has all its fields.       *)
(***************************************************************************)
PersistInit ==
    /\ \E typed \in TypedSimple("salesExpenses"), rate \in BOOLEAN :
          inputs = scripted(FALSE, NoEdit, NoEdit, NoEdit, NoEdit, typed,
                            NoEdit, NoEdit, rate)
    /\ projects = << >>
    /\ activeProjectId = 0
    /\ now = 1000
    /\ nOps = 0
    /\ chatMounted
    /\ apiKeyEnv = ""

PersistNext ==
    \/ handleSimpleChange
    \/ toggleFCMode
    \/ updateFCItem
    \/ toggleTpMode
    \/ updateAIConfig
    \/ handleSave
    \/ handleProjectLoad
    \/ reloadPage

PersistSpec == PersistInit /\ [][PersistNext]_vars

(***************************************************************************)
(* The fixed-cost detail list and the AI settings next to the engine: the  *)
(* edits that are not meant to reach the result.  The session starts from  *)
(* DEFAULT_INPUTS or from the state a blanked fixed-cost amount leaves.    *)
(***************************************************************************)
DetailInit ==
    /\ inputs \in {DEFAULT_INPUTS, blankAmountDetour(DEFAULT_INPUTS)}
    /\ projects = << >>
    /\ activeProjectId = 0
    /\ now = 1000
    /\ nOps = 0
    /\ chatMounted
    /\ apiKeyEnv = ""

DetailNext ==
    \/ handleSimpleChange
    \/ toggleTpMode
    \/ toggleFCMode
    \/ updateFCItem
    \/ addFCItem
    \/ removeFCItem
    \/ updateAIConfig
    \/ loadPreset

DetailSpec == DetailInit /\ [][DetailNext]_vars

(***************************************************************************)
(* services/aiService.ts: getFinancialAnalysis.  A text is '' when it is   *)
(* absent or empty.  The call either returns a message before any network  *)
(* traffic or sends one request; what the network then does is the         *)
(* environment's choice.  A returned text is "analysis" when it is the     *)
(* model's answer and "notice" when it is one of the service's own         *)
(* messages; the message of a thrown Error is "request failed".            *)
(***************************************************************************)
\* const apiKey = config.googleApiKey || process.env.API_KEY
apiKeyOf(config, env) ==
    IF config.googleApiKey # "" THEN config.googleApiKey ELSE env

\* up to the first network await: the message returned at once, or the call made
getFinancialAnalysis(config, env) ==
    IF config.provider = "google"
    THEN IF apiKeyOf(config, env) = ""
         THEN [call |-> "none", key |-> "", text |-> "notice"]
         ELSE [call |-> "google", key |-> apiKeyOf(config, env), text |-> ""]
    ELSE IF config.customBaseUrl = "" \/ config.customModel = ""
         THEN [call |-> "none", key |-> "", text |-> "notice"]
         ELSE [call |-> "custom", key |-> "", text |-> ""]

\* generateContent: a text, an empty text, or an exception
GoogleOutcomes == {"text", "emptyText", "entityNotFound", "apiFailure"}

\* fetch: rejected, a non-OK response, an OK response whose body is not
\* readable as a JSON object, one with a content, one without
CustomOutcomes == {"fetchFailed", "httpError", "bodyUnreadable", "content", "noContent"}

\* variant: an exception of the API other than 'entity not found' is thrown on
callGoogleGemini_rethrow(net) ==
    CASE net = "text" -> [rejects |-> FALSE, text |-> "analysis"]
      [] net = "emptyText" -> [rejects |-> FALSE, text |-> "notice"]
      [] net = "entityNotFound" -> [rejects |-> FALSE, text |-> "notice"]
      [] net = "apiFailure" -> [rejects |-> TRUE, text |-> "request failed"]

\* callGoogleGemini after the API call: every exception is caught and returned
callGoogleGemini(net) ==
    CASE net = "text" -> [rejects |-> FALSE, text |-> "analysis"]
      [] net = "emptyText" -> [rejects |-> FALSE, text |-> "notice"]
      [] net = "entityNotFound" -> [rejects |-> FALSE, text |-> "notice"]
      [] net = "apiFailure" -> [rejects |-> FALSE, text |-> "notice"]

\* callCustomProvider after the fetch: whatever is thrown inside the try is
\* thrown on as a new Error
callCustomProvider(net) ==
    CASE net = "fetchFailed" -> [rejects |-> TRUE, text |-> "request failed"]
      [] net = "httpError" -> [rejects |-> TRUE, text |-> "request failed"]
      [] net = "bodyUnreadable" -> [rejects |-> TRUE, text |-> "request failed"]
      [] net = "content" -> [rejects |-> FALSE, text |-> "analysis"]
      [] net = "noContent" -> [rejects |-> FALSE, text |-> "notice"]

OutcomesOf(call) == IF call = "google" THEN GoogleOutcomes ELSE CustomOutcomes

settle(call, net) ==
    IF call = "google" THEN callGoogleGemini(net) ELSE callCustomProvider(net)

(***************************************************************************)
(* The chat assistant (AIAnalysis).  A message is its role, its text and   *)
(* whether the text starts with the error mark; `q` is the number of the   *)
(* request it belongs to, which the code does not store.  `pending` holds  *)
(* the requests whose network call has not settled.  A call that returns   *)
(* without network traffic settles in microtasks, before the next event:   *)
(* its reply is part of the handler's step.                                *)
(***************************************************************************)
TypedQuery == {" ", "what if"}

\* inputQuery.trim()
trim(text) == IF text = " " THEN "" ELSE text

userMsg(q, text) == [role |-> "user", mark |-> FALSE, text |-> text, q |-> q]

\* the try branch, and the catch branch with its error mark
assistantMsg(q, r) == [role |-> "assistant", mark |-> r.rejects, text |-> r.text, q |-> q]

\* what the handler of `kind` does with the messages once its await is over
afterAwait(kind, prev, q, r) ==
    IF kind = "initial" THEN << assistantMsg(q, r) >>
    ELSE Append(prev, assistantMsg(q, r))

statusAfter(r) == IF r.rejects THEN "ERROR" ELSE "SUCCESS"

\* the component renders (line 104), so its controls can be used
rendered == results.isValid

\* the handler of `kind` from setStatus(LOADING) on, `shown` being the messages
\* it leaves on the screen before the call
startRequest(kind, shown) ==
    LET plan == getFinancialAnalysis(inputs.aiConfig, apiKeyEnv)
        q == nReq + 1
        atOnce == [rejects |-> FALSE, text |-> plan.text]
    IN /\ nReq' = q
       /\ IF plan.call = "none"
          THEN /\ messages' = afterAwait(kind, shown, q, atOnce)
               /\ status' = statusAfter(atOnce)
               /\ pending' = pending
          ELSE /\ messages' = shown
               /\ status' = "LOADING"
               /\ pending' = pending \cup {[q |-> q, kind |-> kind, call |-> plan.call]}

\* the textarea: disabled while LOADING
typeQuery ==
    /\ rendered
    /\ status # "LOADING"
    /\ \E text \in TypedQuery : inputQuery' = text
    /\ UNCHANGED <<inputs, projects, activeProjectId, now, nOps,
                   messages, status, pending, nReq, apiKeyEnv>>

\* the generate-report button, shown while there is no message
handleInitialAnalysis ==
    /\ nReq < MaxRequests
    /\ rendered
    /\ Len(messages) = 0
    /\ results.isValid
    /\ startRequest("initial", messages)
    /\ UNCHANGED <<inputs, projects, activeProjectId, now, nOps, inputQuery, apiKeyEnv>>

\* the send button and the Enter key
handleSendMessage ==
    /\ nReq < MaxRequests
    /\ rendered
    /\ ~(trim(inputQuery) = "" \/ ~results.isValid \/ status = "LOADING")
    /\ startRequest("send", Append(messages, userMsg(nReq + 1, inputQuery)))
    /\ inputQuery' = ""
    /\ UNCHANGED <<inputs, projects, activeProjectId, now, nOps, apiKeyEnv>>

\* the clear button, shown while there is a message: setMessages([])
clearMessages ==
    /\ rendered
    /\ Len(messages) > 0
    /\ messages' = << >>
    /\ UNCHANGED <<inputs, projects, activeProjectId, now, nOps,
                   status, inputQuery, pending, nReq, apiKeyEnv>>

\* the network call of a request settles and its handler resumes
requestSettles ==
    /\ \E r \in pending : \E net \in OutcomesOf(r.call) :
         /\ messages' = afterAwait(r.kind, messages, r.q, settle(r.call, net))
         /\ status' = statusAfter(settle(r.call, net))
         /\ pending' = pending \ {r}
    /\ UNCHANGED <<inputs, projects, activeProjectId, now, nOps,
                   inputQuery, nReq, apiKeyEnv>>

\* the unit price decides whether the chat renders
editPrice == editSimple("p")

\* the AI settings a session can start with: the defaults, a pasted Google
\* key, and the custom provider with its base URL cleared
ChatConfigs ==
    LET d == DEFAULT_INPUTS
        keyed == updateAIConfigInputs(d, [f \in {"googleApiKey"} |-> "AIza"])
        custom == updateAIConfigInputs(d, [f \in {"provider"} |-> "custom"])
        cleared == updateAIConfigInputs(custom, [f \in {"customBaseUrl"} |-> ""])
    IN {d, keyed, cleared}

ChatInit ==
    /\ inputs \in ChatConfigs
    /\ projects = << >>
    /\ activeProjectId = 0
    /\ now = 1000
    /\ nOps = 0
    /\ chatMounted
    /\ apiKeyEnv \in {"", "env key"}

ChatNext ==
    \/ typeQuery
    \/ handleInitialAnalysis
    \/ handleSendMessage
    \/ clearMessages
    \/ requestSettles
    \/ switchProvider
    \/ editPrice

ChatSpec == ChatInit /\ [][ChatNext]_vars

\* every request in flight is answered in the end
ChatLiveSpec == ChatSpec /\ WF_vars(requestSettles)

(***************************************************************************)
(* Properties.  Equality of numbers is ===, so a NaN equals nothing.       *)
(***************************************************************************)
NumericFields ==
    {"cm", "cmr", "bepUnits", "bepAmount", "bepNetUnits", "bepNetAmount",
     "targetUnits", "targetAmount", "totalVC", "totalBusinessCost",
     "totalAllCost", "effectiveGrossTp", "effectiveNetTp", "safetyMargin"}

One == Int2Num(1)

Hundred == Int2Num(100)

\* tpRate / 100 of the current inputs
rate == Div(inputs.tpRate, Hundred)

AbsNum(x) == IF Lt(x, Zero) THEN Neg(x) ELSE x

\* C1: whenever p <= vc the result is invalid and every numeric field is 0,
\* whatever the other inputs are.
C1_Degenerate ==
    Leq(inputs.p, inputs.vc) =>
        /\ results.isValid = FALSE
        /\ \A f \in NumericFields : results[f] = Zero

\* p = vc with the default fixed cost and a target: the engine short-circuits
C1_Witness ==
    /\ StrictEq(inputs.p, inputs.vc)
    /\ inputs.fc = Int2Num(DefaultFc)
    /\ ~IsZero(inputs.tp)
    /\ results.isValid = FALSE

\* C2: in every state reachable from DEFAULT_INPUTS no numeric field of the
\* result is NaN.
C2_NoNaN == \A f \in NumericFields : ~IsNaN(results[f])

\* C3: for a valid result cm = p - vc > 0, cmr * p = cm, and none of the
\* divisors cm, p, cmr, cmr - tpRate/100 (solvable rate branch) is zero.
C3_NoZeroDivisor ==
    results.isValid =>
        /\ StrictEq(results.cm, Sub(inputs.p, inputs.vc))
        /\ Gt(results.cm, Zero)
        /\ StrictEq(Mul(results.cmr, inputs.p), results.cm)
        /\ ~IsZero(results.cm)
        /\ ~IsZero(inputs.p)
        /\ ~IsZero(results.cmr)
        /\ (inputs.tpMode = "rate" /\ Gt(results.cmr, rate)
               => ~IsZero(Sub(results.cmr, rate)))

\* C4: for a valid input bepUnits * cm = fc and bepNetUnits * cm = fc + salesExpenses.
C4_BreakEven ==
    results.isValid =>
        /\ StrictEq(Mul(results.bepUnits, results.cm), inputs.fc)
        /\ StrictEq(Mul(results.bepNetUnits, results.cm),
                    Add(inputs.fc, inputs.salesExpenses))

\* C5: for a valid input in amount mode targetUnits * cm = fc + tp,
\* targetAmount * cmr = fc + tp and effectiveGrossTp = tp; the default
\* inputs give bepUnits 200, targetUnits 300, targetAmount 4,500,000.
C5_AmountTarget ==
    /\ results.isValid /\ inputs.tpMode = "amount" =>
        /\ StrictEq(Mul(results.targetUnits, results.cm), Add(inputs.fc, inputs.tp))
        /\ StrictEq(Mul(results.targetAmount, results.cmr), Add(inputs.fc, inputs.tp))
        /\ StrictEq(results.effectiveGrossTp, inputs.tp)
    /\ inputs = DEFAULT_INPUTS =>
        /\ results.bepUnits = Int2Num(200)
        /\ results.targetUnits = Int2Num(300)
        /\ results.targetAmount = Int2Num(4500000)

\* C6 as stated: for a valid input in rate mode with cmr > tpRate/100,
\* effectiveGrossTp / targetAmount = tpRate/100 and targetUnits = targetAmount / p.
C6_Original ==
    results.isValid /\ inputs.tpMode = "rate" /\ Gt(results.cmr, rate) =>
        /\ StrictEq(Div(results.effectiveGrossTp, results.targetAmount), rate)
        /\ StrictEq(results.targetUnits, Div(results.targetAmount, inputs.p))

\* C6 amended: the same, for a target amount that is a non-zero finite number.
C6_RateRatio ==
    /\ results.isValid /\ inputs.tpMode = "rate" /\ Gt(results.cmr, rate)
    /\ IsFinite(results.targetAmount) /\ ~IsZero(results.targetAmount)
    =>
        /\ StrictEq(Div(results.effectiveGrossTp, results.targetAmount), rate)
        /\ StrictEq(results.targetUnits, Div(results.targetAmount, inputs.p))

\* a solvable rate target with a positive rate and a positive target amount
C6_Witness ==
    /\ results.isValid /\ inputs.tpMode = "rate" /\ Gt(results.cmr, rate)
    /\ Gt(inputs.tpRate, Zero)
    /\ IsFinite(results.targetAmount) /\ Gt(results.targetAmount, Zero)
    /\ Gt(results.effectiveGrossTp, Zero)

\* C7: for a valid input in rate mode with cmr <= tpRate/100 the target
\* amount, target units, gross and net profit are +Infinity, the result
\* stays valid and the break-even fields stay finite.
C7_Unreachable ==
    results.isValid /\ inputs.tpMode = "rate" /\ Leq(results.cmr, rate) =>
        /\ results.targetAmount = PosInf
        /\ results.targetUnits = PosInf
        /\ results.effectiveGrossTp = PosInf
        /\ results.effectiveNetTp = PosInf
        /\ \A f \in {"bepUnits", "bepAmount", "bepNetUnits", "bepNetAmount"} :
              IsFinite(results[f])

\* C8: for a valid input effectiveNetTp = effectiveGrossTp - salesExpenses,
\* and it is +Infinity when effectiveGrossTp is +Infinity and salesExpenses
\* is finite.
C8_NetProfit ==
    results.isValid =>
        /\ StrictEq(results.effectiveNetTp,
                    Sub(results.effectiveGrossTp, inputs.salesExpenses))
        /\ (results.effectiveGrossTp = PosInf /\ IsFinite(inputs.salesExpenses)
               => results.effectiveNetTp = PosInf)

\* C9 as stated: for a valid input with a finite targetAmount, safetyMargin < 1
\* and safetyMargin = (targetAmount - bepAmount) / targetAmount.
C9_Original ==
    results.isValid /\ IsFinite(results.targetAmount) =>
        /\ Lt(results.safetyMargin, One)
        /\ StrictEq(results.safetyMargin,
                    Div(Sub(results.targetAmount, results.bepAmount),
                        results.targetAmount))

\* C9 amended: for a valid input with a finite positive targetAmount,
\* safetyMargin = (targetAmount - bepAmount) / targetAmount, and it is below 1
\* when bepAmount > 0; for a finite targetAmount that is not positive it is 0.
C9_SafetyMargin ==
    results.isValid /\ IsFinite(results.targetAmount) =>
        IF Gt(results.targetAmount, Zero)
        THEN /\ StrictEq(results.safetyMargin,
                         Div(Sub(results.targetAmount, results.bepAmount),
                             results.targetAmount))
             /\ (Gt(results.bepAmount, Zero) => Lt(results.safetyMargin, One))
        ELSE results.safetyMargin = Zero

\* a positive finite target above a positive break-even
C9_Witness ==
    /\ results.isValid /\ IsFinite(results.targetAmount)
    /\ Gt(results.bepAmount, Zero)
    /\ Gt(results.targetAmount, results.bepAmount)
    /\ Gt(results.safetyMargin, Zero)

\* v is x rounded to 2 decimals: a whole number of hundredths within half a
\* hundredth of x
IsRounded2(v, x) ==
    /\ IsFinite(v) /\ IsFinite(x)
    /\ Mul(v, Hundred).d = 1
    /\ ~Gt(AbsNum(Sub(v, x)), Num(1, 200))

\* sum over the product list of the numbers term(item)
mixSum(term(_)) ==
    SumNums([i \in 1..Len(inputs.productDetails) |-> term(inputs.productDetails[i])])

\* C10 as stated: in detailed product mode p = sum(price_i * mix_i) / sum(mix_i)
\* and vc = sum(variableCost_i * mix_i) / sum(mix_i), rounded to 2 decimals,
\* both 0 for an empty list or a zero total mix; the default list gives
\* p = 16600 and vc = 5000.
C10_Original ==
    inputs.productMode = "detailed" =>
        LET mixOf(item) == item.mix
            priceMix(item) == Mul(item.p, item.mix)
            costMix(item) == Mul(item.vc, item.mix)
            totalMix == mixSum(mixOf)
        IN /\ IF Len(inputs.productDetails) = 0 \/ totalMix = Zero
              THEN inputs.p = Zero /\ inputs.vc = Zero
              ELSE /\ IsRounded2(inputs.p, Div(mixSum(priceMix), totalMix))
                   /\ IsRounded2(inputs.vc, Div(mixSum(costMix), totalMix))
           /\ inputs.productDetails = DEFAULT_INPUTS.productDetails =>
                 inputs.p = Int2Num(16600) /\ inputs.vc = Int2Num(5000)

\* C10 amended: the same, a blank (non-numeric) price, variable cost or mix
\* counting as 0, and the default list giving p = 15700 and vc = 5000.
C10_WeightedAverage ==
    inputs.productMode = "detailed" =>
        LET mixOf(item) == NumberOr0(item.mix)
            priceMix(item) == Mul(NumberOr0(item.p), NumberOr0(item.mix))
            costMix(item) == Mul(NumberOr0(item.vc), NumberOr0(item.mix))
            totalMix == mixSum(mixOf)
        IN /\ IF Len(inputs.productDetails) = 0 \/ totalMix = Zero
              THEN inputs.p = Zero /\ inputs.vc = Zero
              ELSE /\ IsRounded2(inputs.p, Div(mixSum(priceMix), totalMix))
                   /\ IsRounded2(inputs.vc, Div(mixSum(costMix), totalMix))
           /\ inputs.productDetails = DEFAULT_INPUTS.productDetails =>
                 inputs.p = Int2Num(15700) /\ inputs.vc = Int2Num(5000)

\* detailed mode after an edit that left a blank field, the stored price being
\* a rounded, not the exact, average
C10_Witness ==
    /\ inputs.productMode = "detailed"
    /\ \E i \in 1..Len(inputs.productDetails) : IsNaN(inputs.productDetails[i].vc)
    /\ LET mixOf(item) == NumberOr0(item.mix)
           priceMix(item) == Mul(NumberOr0(item.p), NumberOr0(item.mix))
       IN /\ mixSum(mixOf) # Zero
          /\ inputs.p # Div(mixSum(priceMix), mixSum(mixOf))

\* C11: in every reachable state with fcMode = 'detailed', fc equals the sum
\* of the amounts of the fcDetails list, a blank amount counting as 0 and an
\* empty list giving 0.
C11_FcIsDetailSum ==
    inputs.fcMode = "detailed" => StrictEq(inputs.fc, fcTotal(inputs.fcDetails))

\* the edit of the simple field `key` with the typed text `typed`
simpleEdited(key, typed) ==
    inputs' = handleInputChange(inputs, [f \in {key} |-> parseSimple(typed)])

\* C12: switching fcMode from 'detailed' to 'simple' changes only fcMode; an
\* edit of fc in simple mode leaves fcDetails alone; switching productMode
\* from 'detailed' to 'simple' changes only productMode.
C12_SwitchKeepsValues ==
    [][/\ (inputs.fcMode = "detailed" /\ toggleFCMode)
            => inputs' = [inputs EXCEPT !.fcMode = "simple"]
       /\ (inputs.fcMode = "simple" /\ \E typed \in TypedSimple("fc") : simpleEdited("fc", typed))
            => inputs'.fcDetails = inputs.fcDetails
       /\ (inputs.productMode = "detailed" /\ toggleProductMode)
            => inputs' = [inputs EXCEPT !.productMode = "simple"]]_vars

\* back in simple mode with an edited detail list and the fc it summed to
C12_Witness ==
    /\ inputs.fcMode = "simple"
    /\ inputs.fcDetails # DEFAULT_INPUTS.fcDetails
    /\ inputs.fc # Int2Num(DefaultFc)
    /\ StrictEq(inputs.fc, fcTotal(inputs.fcDetails))

\* C13: with tpMode = 'amount' an edit of tp, salesExpenses or targetNetProfit
\* keeps the edited value, an edit of targetNetProfit leaves salesExpenses
\* unchanged, and directly after the edit targetNetProfit = tp - salesExpenses.
C13_LastEditWins ==
    [][\A key \in {"tp", "salesExpenses", "targetNetProfit"} :
         \A typed \in TypedSimple(key) :
            (inputs.tpMode = "amount" /\ simpleEdited(key, typed)) =>
                /\ StrictEq(inputs'[key], parseSimple(typed))
                /\ (key = "targetNetProfit" =>
                       StrictEq(inputs'.salesExpenses, inputs.salesExpenses))
                /\ StrictEq(inputs'.targetNetProfit,
                            Sub(inputs'.tp, inputs'.salesExpenses))]_vars

\* C14: in every reachable state with tpMode = 'amount',
\* targetNetProfit = tp - salesExpenses.
C14_NetProfitSync ==
    inputs.tpMode = "amount" =>
        StrictEq(inputs.targetNetProfit, Sub(inputs.tp, inputs.salesExpenses))

\* the step loads the i-th saved project
loadsProject(i) ==
    /\ activeProjectId' = projects[i].id
    /\ inputs' = handleProjectLoadInputs(inputs, projects[i])

\* the field is absent from the snapshot
Lacks(snapshot, field) == snapshot[field].k = "undefined"

\* C15: loading a snapshot that lacks salesExpenses and/or targetNetProfit
\* yields a state in which both are defined numbers, salesExpenses being its
\* default 0 when it was absent and targetNetProfit = tp - salesExpenses, and
\* the result computed right after the load contains no NaN.
C15_OlderSnapshot ==
    [][\A i \in 1..Len(projects) :
         LET snapshot == projects[i].inputs
         IN (/\ loadsProject(i)
             /\ (Lacks(snapshot, "salesExpenses") \/ Lacks(snapshot, "targetNetProfit")))
            =>
             /\ IsFinite(inputs'.salesExpenses)
             /\ IsFinite(inputs'.targetNetProfit)
             /\ (Lacks(snapshot, "salesExpenses") => inputs'.salesExpenses = Zero)
             /\ StrictEq(inputs'.targetNetProfit,
                         Sub(inputs'.tp, inputs'.salesExpenses))
             /\ \A f \in NumericFields : ~IsNaN(evaluate(inputs')[f])]_vars

\* the snapshot has every field of FinancialInputs
AllPresent(snapshot) ==
    ~Lacks(snapshot, "salesExpenses") /\ ~Lacks(snapshot, "targetNetProfit")

\* C16: a project saved from a state S that has all its fields keeps S until
\* it is loaded, and the load restores every field of S other than aiConfig,
\* the detail lists element for element, without reconciling anything.
C16_RoundTrip ==
    [][\A i \in 1..Len(projects) :
         AllPresent(projects[i].inputs) =>
            /\ \E j \in 1..Len(projects') :
                  /\ projects'[j].id = projects[i].id
                  /\ projects'[j].inputs = projects[i].inputs
            /\ loadsProject(i) =>
                  \A f \in DOMAIN inputs \ {"aiConfig"} :
                      inputs'[f] = projects[i].inputs[f]]_vars

\* the fields the engine is a function of
EngineFields == {"fc", "p", "vc", "tp", "tpMode", "tpRate", "salesExpenses"}

\* the step renames a fixed-cost detail item
renamesItem ==
    /\ inputs.fcMode = "detailed"
    /\ \E i \in 1..Len(inputs.fcDetails) : \E v \in TypedName :
          inputs' = handleInputChange(inputs,
              updateFCItemUpdates(inputs, inputs.fcDetails[i].id, "name", v))

\* C17: the result depends on fc, p, vc, tp, tpMode, tpRate and salesExpenses
\* only: a step that leaves these seven alone leaves the result alone, and
\* updateAIConfig, loadPreset and the renaming of a detail item never change
\* a result field.
C17_ResultIgnoresTheRest ==
    [][/\ (\A f \in EngineFields : inputs'[f] = inputs[f])
            => evaluate(inputs') = evaluate(inputs)
       /\ (updateAIConfig \/ loadPreset \/ renamesItem)
            => evaluate(inputs') = evaluate(inputs)]_vars

\* the inputs satisfy the data model: fc, p, vc, salesExpenses >= 0,
\* 0 <= tpRate <= 100, tp any number
InDataModel ==
    /\ Leq(Zero, inputs.fc) /\ Leq(Zero, inputs.p) /\ Leq(Zero, inputs.vc)
    /\ Leq(Zero, inputs.salesExpenses)
    /\ Leq(Zero, inputs.tpRate) /\ Leq(inputs.tpRate, Hundred)
    /\ IsFinite(inputs.tp)

\* 0, a finite positive number or +Infinity
NonNegative(x) == x = PosInf \/ (IsFinite(x) /\ ~Lt(x, Zero))

\* C18 as stated: for every input that satisfies the data model every numeric
\* field of the result is 0, a finite positive number or +Infinity.
C18_Original ==
    InDataModel => \A f \in NumericFields : NonNegative(results[f])

\* C18 amended: for every input that satisfies the data model every numeric
\* field is a finite number or +Infinity; cm, cmr and the break-even fields
\* are never negative; in rate mode, and in amount mode with tp >= 0, no field
\* other than effectiveNetTp is negative; in a valid result effectiveNetTp is
\* negative exactly when salesExpenses exceeds effectiveGrossTp.
C18_Ranges ==
    InDataModel =>
        /\ \A f \in NumericFields : results[f] = PosInf \/ IsFinite(results[f])
        /\ \A f \in {"cm", "cmr", "bepUnits", "bepAmount", "bepNetUnits", "bepNetAmount"} :
              NonNegative(results[f])
        /\ (inputs.tpMode = "rate" \/ Leq(Zero, inputs.tp)) =>
              \A f \in NumericFields \ {"effectiveNetTp"} : NonNegative(results[f])
        /\ results.isValid =>
              (Lt(results.effectiveNetTp, Zero)
                  <=> Lt(results.effectiveGrossTp, inputs.salesExpenses))

\* a valid input of the data model whose net profit is negative while its
\* safety margin is positive
C18_Witness ==
    /\ InDataModel /\ results.isValid
    /\ Lt(results.effectiveNetTp, Zero)
    /\ Gt(results.safetyMargin, Zero)

\* C19: in every reachable state fc >= 0, p >= 0, vc >= 0, salesExpenses >= 0
\* and 0 <= tpRate <= 100.
C19_RangesHold ==
    /\ Leq(Zero, inputs.fc) /\ Leq(Zero, inputs.p) /\ Leq(Zero, inputs.vc)
    /\ Leq(Zero, inputs.salesExpenses)
    /\ Leq(Zero, inputs.tpRate) /\ Leq(inputs.tpRate, Hundred)

\* C20: for a valid input with finite targetUnits, totalVC = targetUnits * vc,
\* totalBusinessCost = fc + totalVC and totalAllCost = totalBusinessCost +
\* salesExpenses; with targetUnits = +Infinity all three are +Infinity, also
\* when vc = 0.
C20_CostDecomposition ==
    results.isValid =>
        /\ IsFinite(results.targetUnits) =>
              /\ StrictEq(results.totalVC, Mul(results.targetUnits, inputs.vc))
              /\ StrictEq(results.totalBusinessCost, Add(inputs.fc, results.totalVC))
              /\ StrictEq(results.totalAllCost,
                          Add(results.totalBusinessCost, inputs.salesExpenses))
        /\ results.targetUnits = PosInf =>
              /\ results.totalVC = PosInf
              /\ results.totalBusinessCost = PosInf
              /\ results.totalAllCost = PosInf

\* C21: for a valid result with a finite target, in both target modes,
\* effectiveGrossTp = targetAmount - totalBusinessCost and
\* effectiveNetTp = targetAmount - totalAllCost.
C21_ActualProfit ==
    (results.isValid /\ IsFinite(results.targetAmount)) =>
        /\ StrictEq(results.effectiveGrossTp,
                    Sub(results.targetAmount, results.totalBusinessCost))
        /\ StrictEq(results.effectiveNetTp,
                    Sub(results.targetAmount, results.totalAllCost))

\* C22: for a valid result bepAmount = bepUnits * p and
\* bepNetAmount = bepNetUnits * p, and with a finite target
\* targetAmount = targetUnits * p, in both target modes.
C22_UnitsTimesPrice ==
    results.isValid =>
        /\ StrictEq(results.bepAmount, Mul(results.bepUnits, inputs.p))
        /\ StrictEq(results.bepNetAmount, Mul(results.bepNetUnits, inputs.p))
        /\ IsFinite(results.targetAmount) =>
              StrictEq(results.targetAmount, Mul(results.targetUnits, inputs.p))

\* C23: for a valid result with fc >= 0 and salesExpenses >= 0,
\* bepUnits <= bepNetUnits with equality exactly when salesExpenses = 0, and
\* targetUnits >= bepNetUnits exactly when effectiveNetTp >= 0.
C23_SalesPointOrder ==
    (results.isValid /\ Leq(Zero, inputs.fc) /\ Leq(Zero, inputs.salesExpenses)) =>
        /\ Leq(results.bepUnits, results.bepNetUnits)
        /\ StrictEq(results.bepUnits, results.bepNetUnits)
              <=> StrictEq(inputs.salesExpenses, Zero)
        /\ Leq(results.bepNetUnits, results.targetUnits)
              <=> Leq(Zero, results.effectiveNetTp)

\* values the field that is not authoritative could hold instead
OtherValues == {Undefined, NaN, Zero, Int2Num(-3000000), Int2Num(500000), Int2Num(80)}

\* the result of the current inputs with tp and targetNetProfit replaced
withTarget(tp, targetNetProfit) ==
    evaluate([inputs EXCEPT !.tp = tp, !.targetNetProfit = targetNetProfit])

\* the result of the current inputs with tpRate replaced
withRate(tpRate) == evaluate([inputs EXCEPT !.tpRate = tpRate])

\* C24: with tpMode = 'rate' the result is the same whatever tp and
\* targetNetProfit are, with tpMode = 'amount' it is the same whatever tpRate
\* is, and toggling tpMode changes tpMode and no other field.
C24_AuthoritativeField ==
    /\ [](/\ inputs.tpMode = "rate" =>
               \A tp \in OtherValues, targetNetProfit \in OtherValues :
                   withTarget(tp, targetNetProfit) = results
          /\ inputs.tpMode = "amount" =>
               \A tpRate \in OtherValues : withRate(tpRate) = results)
    /\ [][toggleTpMode =>
            inputs' = [inputs EXCEPT
                          !.tpMode = IF inputs.tpMode = "rate" THEN "amount" ELSE "rate"]]_vars

\* toggled to rate mode with a solvable target, tp being none of the other values
C24_Witness ==
    /\ inputs.tpMode = "rate"
    /\ nOps > 0
    /\ results.isValid
    /\ IsFinite(results.effectiveGrossTp)
    /\ inputs.tp \notin OtherValues
    /\ ~StrictEq(results.effectiveGrossTp, inputs.tp)

\* C25: with tpMode = 'amount' and p > vc, directly after the edit of
\* targetNetProfit to x (salesExpenses being s) the result has
\* effectiveNetTp = x and effectiveGrossTp = x + s, and directly after an edit
\* of tp or salesExpenses targetNetProfit equals the result's effectiveNetTp.
C25_EndToEnd ==
    [][(inputs.tpMode = "amount" /\ Gt(inputs.p, inputs.vc)) =>
         /\ \A typed \in TypedSimple("targetNetProfit") :
               simpleEdited("targetNetProfit", typed) =>
                  /\ StrictEq(evaluate(inputs').effectiveNetTp, parseSimple(typed))
                  /\ StrictEq(evaluate(inputs').effectiveGrossTp,
                              Add(parseSimple(typed), inputs.salesExpenses))
         /\ \A key \in {"tp", "salesExpenses"} : \A typed \in TypedSimple(key) :
               simpleEdited(key, typed) =>
                  StrictEq(inputs'.targetNetProfit, evaluate(inputs').effectiveNetTp)]_vars

C27_OneInFlight ==
    /\ [](/\ Cardinality(pending) <= 1
          /\ status = "LOADING" <=> pending # {})
    /\ [][nReq' # nReq => pending = {}]_vars

\* C28: a step other than the clear button keeps every message where it is,
\* and the reply to a question stands after the question in the list.
C28_MessagesKept ==
    [][/\ ~clearMessages =>
            /\ Len(messages') >= Len(messages)
            /\ \A i \in 1..Len(messages) : messages'[i] = messages[i]
       /\ \A i, j \in 1..Len(messages') :
            (/\ messages'[i].role = "user"
             /\ messages'[j].role = "assistant"
             /\ messages'[j].q = messages'[i].q) => i < j]_vars

\* the step is the settling of request r: the number of assistant messages
\* grows by one, none of the earlier messages goes, and status leaves LOADING
settlesWell(r) ==
    LET assistants(list) == Cardinality({i \in 1..Len(list) : list[i].role = "assistant"})
    IN /\ assistants(messages') = assistants(messages) + 1
       /\ Len(messages') = Len(messages) + 1
       /\ messages'[Len(messages')].q = r.q
       /\ status' \in {"SUCCESS", "ERROR"}
       /\ status' = "ERROR" <=> messages'[Len(messages')].mark

\* C29: a request that settles adds exactly one assistant message and sets
\* status to SUCCESS, or to ERROR with a message that starts with the error
\* mark; if every request settles, LOADING leads to SUCCESS or ERROR and the
\* input box is enabled again; no request starts while the result is invalid.
C29_ChatLiveness ==
    /\ [][/\ \A r \in pending : r \notin pending' => settlesWell(r)
          /\ nReq' # nReq => results.isValid]_vars
    /\ (status = "LOADING") ~> (status \in {"SUCCESS", "ERROR"})

\* what getFinancialAnalysis does under the current settings, the outcomes in
\* `failing` being the ones of the custom provider's network call that reject
signalsErrors(failing) ==
    LET config == inputs.aiConfig
        plan == getFinancialAnalysis(config, apiKeyEnv)
    IN /\ config.provider = "google" =>
             /\ (config.googleApiKey = "" /\ apiKeyEnv = "") =>
                    (plan.call = "none" /\ plan.text = "notice")
             /\ config.googleApiKey # "" =>
                    (plan.call = "google" /\ plan.key = config.googleApiKey)
             /\ (config.googleApiKey = "" /\ apiKeyEnv # "") =>
                    (plan.call = "google" /\ plan.key = apiKeyEnv)
             /\ \A net \in GoogleOutcomes : ~settle("google", net).rejects
       /\ config.provider = "custom" =>
             /\ (config.customBaseUrl = "" \/ config.customModel = "") =>
                    (plan.call = "none" /\ plan.text = "notice")
             /\ (config.customBaseUrl # "" /\ config.customModel # "") =>
                    plan.call = "custom"
             /\ \A net \in CustomOutcomes :
                    settle("custom", net).rejects <=> net \in failing

\* a step that sets status to ERROR is the settling of a network request of
\* the custom provider
errorOnlyFromCustom ==
    (status' = "ERROR" /\ <<status, pending>>' # <<status, pending>>) =>
        \E r \in pending : r \notin pending' /\ r.call = "custom"

\* C30 as stated: with provider 'google' the call never rejects, a missing key
\* returns a message without an API call and a pasted key comes before the
\* environment's; with provider 'custom' a missing base URL or model returns
\* a message without a network call and only a failed fetch or a non-OK
\* response rejects; status ERROR arises only from a network request of the
\* custom provider.
C30_Original ==
    /\ []signalsErrors({"fetchFailed", "httpError"})
    /\ [][errorOnlyFromCustom]_vars

\* C30, amended: the same, the rejecting outcomes of the custom provider being
\* a failed fetch, a non-OK response and an OK response whose body cannot be
\* read as a JSON object.
C30_ErrorSignalling ==
    /\ []signalsErrors({"fetchFailed", "httpError", "bodyUnreadable"})
    /\ [][errorOnlyFromCustom]_vars

\* a request of the custom provider was rejected while Google is selected
\* with a pasted key and an environment key
C30_Witness ==
    /\ status = "ERROR"
    /\ Len(messages) > 0
    /\ messages[Len(messages)].mark
    /\ inputs.aiConfig.provider = "google"
    /\ inputs.aiConfig.googleApiKey # ""
    /\ apiKeyEnv # ""

====
